---- MODULE Spec2Model ----
(***************************************************************************)
(* Model of the analytics backend of izaj-desktop                          *)
(* (backend/python/services/analytics.py behind routers/dashboard.py).     *)
(*                                                                         *)
(* The record store (Supabase) is the environment: four tables of rows.    *)
(* One request at a time is followed through its pipeline; every fetch of  *)
(* the pipeline is one step, so that a fetch may fail and the clock may    *)
(* advance between two fetches.                                            *)
(*                                                                         *)
(* Units: money is held in centavos (so the "%.2f" format is exact),       *)
(* percentages in tenths of a percent (the "%.1f" format), timestamps in   *)
(* whole days since 1 January of BaseYear on the Gregorian calendar.       *)
(***************************************************************************)
EXTENDS Integers, Sequences, FiniteSets, TLC

\* ------------------------------------------------------------------ bounds
\* At most this many rows of OrderPool are in the orders table.
MaxOrders == 3
\* At most this many rows of ItemPool are in the order_items table.
MaxItems == 3
\* At most this many rows are in the profiles table.
MaxProfiles == 4

\* ---------------------------------------------------------------- calendar
\* The years the calendar covers; day 0 is 1 January of the first.
Years == 2023 .. 2026
BaseYear == CHOOSE y \in Years : \A z \in Years : y <= z

IsLeap(y) == (y % 4 = 0 /\ y % 100 # 0) \/ (y % 400 = 0)

DaysInMonth(y, m) ==
    IF m = 2 THEN (IF IsLeap(y) THEN 29 ELSE 28)
    ELSE IF m \in {4, 6, 9, 11} THEN 30 ELSE 31

RECURSIVE DaysBeforeMonth(_, _)
DaysBeforeMonth(y, m) ==
    IF m = 1 THEN 0 ELSE DaysBeforeMonth(y, m - 1) + DaysInMonth(y, m - 1)

RECURSIVE DaysBeforeYear(_)
DaysBeforeYear(y) ==
    IF y <= BaseYear THEN 0
    ELSE DaysBeforeYear(y - 1) + DaysBeforeMonth(y - 1, 12) + 31

\* The day number of the first day of each month of the calendar.
MonthStart ==
    [ y \in Years |->
        [ m \in 1..12 |-> DaysBeforeYear(y) + DaysBeforeMonth(y, m) ] ]

\* datetime(y, m, d) as a day number.
Day(y, m, d) == MonthStart[y][m] + (d - 1)

\* The year and the month of every day of the calendar.
DateOf ==
    [ t \in 0 .. (MonthStart[BaseYear + 3][12] + 30) |->
        CHOOSE ym \in Years \X (1..12) :
            /\ MonthStart[ym[1]][ym[2]] <= t
            /\ t < MonthStart[ym[1]][ym[2]] + DaysInMonth(ym[1], ym[2]) ]

\* .year and .dt.month of a timestamp.
YearOf(t) == DateOf[t][1]
MonthOf(t) == DateOf[t][2]

\* strftime('%B'): the month's name is its place in this list.
MonthNames ==
    << "January", "February", "March", "April", "May", "June", "July",
       "August", "September", "October", "November", "December" >>

\* ------------------------------------------------------------- raw values
\* A loosely typed field of a fetched row: a number, a numeric string such
\* as '100.50', a non-numeric string such as 'abc', or null.
Num(n) == [t |-> "num", v |-> n]
NumStr(n) == [t |-> "numstr", v |-> n]
Text == [t |-> "text", v |-> 0]
Null == [t |-> "null", v |-> 0]

\* pd.to_numeric(column, errors='coerce'): a parsed number or NaN.
NaN == [nan |-> TRUE, v |-> 0]
to_numeric(x) ==
    IF x.t \in {"num", "numstr"} THEN [nan |-> FALSE, v |-> x.v] ELSE NaN

\* .fillna(d)
fillna(x, d) == IF x.nan THEN d ELSE x.v

\* A faulty variant: numeric strings are not parsed.
coerce_strict(x) == IF x.t = "num" THEN x.v ELSE 0
\* pd.to_numeric(..., errors='coerce').fillna(0)
coerce_numeric(x) == fillna(to_numeric(x), 0)

\* ------------------------------------------------------------- arithmetic
RECURSIVE SumOver(_, _)
\* sum of f[r] for the rows r of the set S
SumOver(S, f) ==
    IF S = {} THEN 0
    ELSE LET r == CHOOSE x \in S : TRUE
         IN  f[r] + SumOver(S \ {r}, f)

\* n / d for d > 0, rounded to the nearest integer, ties to even: what
\* "%.1f" and round(x, 1) give for a value held in tenths.
RoundDiv(n, d) ==
    LET q == n \div d
        r == n % d
    IN  IF 2 * r < d THEN q
        ELSE IF 2 * r > d THEN q + 1
        ELSE IF q % 2 = 0 THEN q ELSE q + 1

\* The value a float division by zero leaves (inf or nan): no percentage.
Inf == 999999999

\* (cur - prev) / prev * 100 formatted with one decimal, in tenths.
PctChange(cur, prev) ==
    IF prev = 0 THEN Inf
    ELSE IF prev > 0 THEN RoundDiv((cur - prev) * 1000, prev)
    ELSE RoundDiv((prev - cur) * 1000, 0 - prev)

\* ------------------------------------------------------------------ store
Order(i, s, a, d) ==
    [id |-> i, status |-> s, total_amount |-> a, created_at |-> d]

\* The orders the environment may hold (any MaxOrders of them).
OrderPool ==
    { Order(1, "complete", NumStr(10050), Day(2024, 1, 15)),
      Order(2, "pending", Text, Day(2024, 6, 1)),
      Order(3, "complete", Num(100000), Day(2024, 3, 15)),
      Order(4, "complete", Num(150000), Day(2024, 4, 10)),
      Order(5, "complete", Num(-120000), Day(2024, 3, 20)),
      Order(6, "approved", Num(30000), Day(2024, 6, 5)),
      Order(7, "in_transit", Null, Day(2024, 6, 8)),
      Order(8, "cancelled", Num(20000), Day(2023, 12, 31)),
      Order(9, "refunded", Num(40000), Day(2024, 6, 9)),
      Order(10, "complete", Num(70000), Day(2024, 5, 20)),
      Order(11, "complete", Text, Day(2024, 4, 12)),
      Order(12, "complete", Num(100000), Day(2025, 1, 3)) }

\* The profiles table.
ProfilePool ==
    { [id |-> 1, created_at |-> Day(2023, 2, 1)],
      [id |-> 2, created_at |-> Day(2024, 6, 5)],
      [id |-> 3, created_at |-> Day(2024, 12, 30)] }

\* The readings of the clock, datetime.now(): no row of the pools is
\* younger than the first.
Clock == { Day(2025, 1, 5), Day(2025, 2, 20), Day(2026, 1, 2) }

\* ------------------------------------------------------------------ state
VARIABLES
    profiles,      \* table profiles: rows [id, created_at]
    orders,        \* table orders: rows [id, status, total_amount, created_at]
    order_items,   \* table order_items
    reviews,       \* table reviews: rows [product_id, rating]
    now,           \* datetime.now()
    pc,            \* where the request in progress stands
    req,           \* the endpoint called and its query parameters
    loc,           \* the local variables of the service method
    fetched,       \* the fetches this request has issued, in order
    divisors,      \* the denominators this request has divided by
    resp,          \* the response of the request
    prev           \* the previous successful response, with its request

store == << profiles, orders, order_items, reviews >>
vars ==
    << profiles, orders, order_items, reviews, now, pc, req, loc, fetched,
       divisors, resp, prev >>

\* ---------------------------------------------------------------- fetches
\* table('profiles').select('*', count='exact')
FetchProfileCount == Cardinality(profiles)

\* ... .gte('created_at', start_date)
FetchProfileCountSince(start_date) ==
    Cardinality({ p \in profiles : p.created_at >= start_date })

\* table('orders').select('status, total_amount, created_at')
FetchOrders == orders

\* ... .gte('created_at', Jan 1).lte('created_at', Dec 31 23:59:59)
\*     .eq('status', 'complete')
FetchCompleteOrdersOfYear(year) ==
    { o \in orders :
        /\ o.created_at >= Day(year, 1, 1)
        /\ o.created_at <= Day(year, 12, 31)
        /\ o.status = "complete" }

\* ------------------------------------------------------- dashboard stats
\* timedelta(days=...) of the period; anything else is the month.
PeriodDays(period) ==
    IF period = "week" THEN 7 ELSE IF period = "year" THEN 365 ELSE 30

StartDate(period, t) == t - PeriodDays(period)

CountStatus(rows, s) == Cardinality({ o \in rows : o.status = s })

\* value_counts() read into the five fixed buckets, and len(df_orders)
OrderStats(rows) ==
    [ pending    |-> CountStatus(rows, "pending"),
      approved   |-> CountStatus(rows, "approved"),
      in_transit |-> CountStatus(rows, "in_transit"),
      complete   |-> CountStatus(rows, "complete"),
      cancelled  |-> CountStatus(rows, "cancelled"),
      total      |-> Cardinality(rows) ]

Amounts(rows) == [ o \in rows |-> coerce_numeric(o.total_amount) ]

\* df_orders['total_amount'].sum()
TotalEarnings(rows) == SumOver(rows, Amounts(rows))

\* df_orders[df_orders['created_at'] >= start_date]['total_amount'].sum()
PeriodEarnings(rows, start_date) ==
    LET recent == { o \in rows : o.created_at >= start_date }
    IN  SumOver(recent, Amounts(recent))

\* A faulty variant: only a zero denominator is refused.
EarningsGuardNonZero(previous) == previous # 0
\* "if previous_period_earnings > 0"
EarningsGuard(previous) == previous > 0

\* earnings_growth, in tenths of a percent
EarningsGrowth(total, period) ==
    LET previous == total - period
    IN  IF EarningsGuard(previous) THEN PctChange(period, previous) ELSE 0

\* the denominators EarningsGrowth divides by
EarningsDivisors(total, period) ==
    IF EarningsGuard(total - period) THEN { total - period } ELSE {}

\* round(period / total * 100, 1) if total > 0 else 0, in tenths
CustomerPercentage(total, period) ==
    IF total > 0 THEN RoundDiv(period * 1000, total) ELSE 0

DashboardStats(total_customers, period_customers, rows, start_date) ==
    LET total == IF rows # {} THEN TotalEarnings(rows) ELSE 0
        period == IF rows # {} THEN PeriodEarnings(rows, start_date) ELSE 0
    IN  [ customers |->
            [ total |-> total_customers,
              period |-> period_customers,
              percentage |->
                  CustomerPercentage(total_customers, period_customers) ],
          orders |-> OrderStats(rows),
          earnings |->
            [ total |-> total,
              period |-> period,
              growth |->
                  IF rows # {} THEN EarningsGrowth(total, period) ELSE 0,
              currency |-> "PHP" ] ]

\* ----------------------------------------------------------- sales report
\* df_orders.groupby('month'): the months that have a group
MonthIndex(rows) == { MonthOf(o.created_at) : o \in rows }

RowsOfMonth(rows, i) == { o \in rows : MonthOf(o.created_at) = i }

\* monthly_data.loc[i, 'total_amount'] if i in monthly_data.index else 0
MonthSales(rows, i) ==
    IF i \in MonthIndex(rows)
    THEN SumOver(RowsOfMonth(rows, i), Amounts(RowsOfMonth(rows, i)))
    ELSE 0

\* monthly_data.loc[i, 'orders'] if i in monthly_data.index else 0
MonthOrders(rows, i) ==
    IF i \in MonthIndex(rows) THEN Cardinality(RowsOfMonth(rows, i)) ELSE 0

\* The growth field is the literal "0" or a one-decimal string.
GrowthZero == [literal0 |-> TRUE, tenths |-> 0]
GrowthStr(x) == [literal0 |-> FALSE, tenths |-> x]

\* "if i > 1:" and "if prev_sales > 0:"
SalesGuard(i, prev_sales) == i > 1 /\ prev_sales > 0

\* A faulty variant: every month is compared with January.
PrevSalesOfJanuary(rows, i) == MonthSales(rows, 1)
\* prev_sales of month i (read only when i > 1)
PrevSales(rows, i) == MonthSales(rows, i - 1)

MonthGrowth(rows, i) ==
    IF SalesGuard(i, PrevSales(rows, i))
    THEN GrowthStr(PctChange(MonthSales(rows, i), PrevSales(rows, i)))
    ELSE GrowthZero

\* A faulty variant: only the months that have a group are listed.
MonthlyArrayDropEmpty(rows, year) ==
    [ i \in 1..Cardinality(MonthIndex(rows)) |->
        LET m == CHOOSE k \in MonthIndex(rows) :
                   Cardinality({ j \in MonthIndex(rows) : j < k }) = i - 1
        IN  [ month |-> MonthNames[m],
              sales |-> MonthSales(rows, m),
              orders |-> MonthOrders(rows, m),
              growth |-> MonthGrowth(rows, m) ] ]
\* monthly_array: twelve SalesReportMonth, from either branch
MonthlyArray(rows, year) ==
    IF rows # {}
    THEN [ i \in 1..12 |->
             [ month |-> MonthNames[i],
               sales |-> MonthSales(rows, i),
               orders |-> MonthOrders(rows, i),
               growth |-> MonthGrowth(rows, i) ] ]
    ELSE [ i \in 1..12 |->
             [ month |-> MonthNames[i], sales |-> 0, orders |-> 0,
               growth |-> GrowthZero ] ]

\* the denominators the growth loop divides by
SalesDivisors(rows) ==
    IF rows = {} THEN {}
    ELSE { PrevSales(rows, i) :
             i \in { j \in 1..12 : SalesGuard(j, PrevSales(rows, j)) } }

RECURSIVE SumField(_, _, _)
\* sum(month.<field> for month in monthly_array[from:])
SumField(arr, from, field) ==
    IF from > Len(arr) THEN 0
    ELSE arr[from][field] + SumField(arr, from + 1, field)

\* average_growth: the mean of the growth strings other than "0" of the
\* months after the first, with one decimal, or "0"
AverageGrowth(arr) ==
    LET counted == { i \in 2..Len(arr) : ~arr[i].growth.literal0 }
        tenths == [ i \in counted |-> arr[i].growth.tenths ]
    IN  IF counted = {} THEN GrowthZero
        ELSE GrowthStr(RoundDiv(SumOver(counted, tenths),
                                Cardinality(counted)))

SalesReport(rows, year) ==
    LET arr == MonthlyArray(rows, year)
    IN  [ monthly |-> arr,
          summary |->
            [ totalSales |-> SumField(arr, 1, "sales"),
              totalOrders |-> SumField(arr, 1, "orders"),
              averageGrowth |-> AverageGrowth(arr) ],
          year |-> year ]

\* ------------------------------------------------------- monthly earnings
\* [0.0] * 12, then one assignment per group of monthly_totals
\* A faulty variant: the total of month m is stored at index m, one place
\* after its own.
MonthlyEarningsShifted(rows) ==
    [ i \in 1..12 |->
        IF rows # {} /\ (i - 1) \in MonthIndex(rows)
        THEN SumOver(RowsOfMonth(rows, i - 1), Amounts(RowsOfMonth(rows, i - 1)))
        ELSE 0 ]

\* monthly_earnings = [0.0] * 12, then monthly_earnings[month - 1] = total
MonthlyEarnings(rows) ==
    [ i \in 1..12 |->
        IF rows # {} /\ i \in MonthIndex(rows)
        THEN SumOver(RowsOfMonth(rows, i), Amounts(RowsOfMonth(rows, i)))
        ELSE 0 ]

\* ---------------------------------------------------------- order items
\* A product name is null or a string, held as its pieces: words and runs
\* of whitespace (" ").
NullName == [null |-> TRUE, pieces |-> << >>]
Name(pieces) == [null |-> FALSE, pieces |-> pieces]

ChandelierGold == Name(<< "Chandelier", " ", "Gold" >>)
ChandelierSilver == Name(<< "Chandelier", " ", "Silver" >>)
LampDesk == Name(<< "Lamp", " ", "Desk" >>)
Blank == Name(<< " " >>)
EmptyName == Name(<< >>)

\* The product names in the order Python compares the strings.
NameOrder == << EmptyName, Blank, ChandelierGold, ChandelierSilver, LampDesk >>
NameRank(n) == CHOOSE i \in 1..Len(NameOrder) : NameOrder[i] = n

\* The categories in the order Python compares the strings.
CategoryOrder == << "Chandelier", "Lamp", "Uncategorized" >>
CategoryRank(c) == CHOOSE i \in 1..Len(CategoryOrder) : CategoryOrder[i] = c

\* if category: ... -- None and '' add no filter
NoCategory == ""

Item(i, o, p, n, q, u, c) ==
    [ id |-> i, order_id |-> o, product_id |-> p, product_name |-> n,
      quantity |-> q, unit_price |-> u, category |-> c ]

\* The order items the environment may hold (any MaxItems of them).
ItemPool ==
    { Item(1, 3, 1, ChandelierGold, Num(2), Num(50000), "Lighting"),
      Item(2, 3, 2, ChandelierSilver, Num(1), NumStr(30000), "Lighting"),
      Item(3, 4, 3, LampDesk, NumStr(3), Num(10000), "Decor"),
      Item(4, 4, 1, ChandelierGold, Text, Num(50000), "Lighting"),
      Item(5, 2, 3, LampDesk, Num(5), Num(10000), "Decor"),
      Item(6, 4, 4, NullName, Num(4), Null, "Decor"),
      Item(7, 3, 5, Blank, Num(2), Num(100), "Decor"),
      Item(8, 4, 2, ChandelierSilver, Num(1), Num(30000), "Lighting"),
      Item(9, 4, 6, EmptyName, Num(1), Num(200), "Decor") }

\* The reviews table; a rating may be null.
ReviewPool ==
    { [id |-> 1, product_id |-> 1, rating |-> Num(5)],
      [id |-> 2, product_id |-> 1, rating |-> Num(4)],
      [id |-> 3, product_id |-> 2, rating |-> Num(3)],
      [id |-> 4, product_id |-> 3, rating |-> Null] }

\* table('orders').select('id').eq('status', 'complete')
FetchCompleteOrderIds == { o.id : o \in { x \in orders : x.status = "complete" } }

\* table('order_items').select(...).in_('order_id', ids) [.eq('category', c)]
FetchOrderItems(ids, category) ==
    { it \in order_items :
        /\ it.order_id \in ids
        /\ category = NoCategory \/ it.category = category }

\* table('reviews').select('rating').eq('product_id', product_id)
FetchReviews(product_id) == { r \in reviews : r.product_id = product_id }

\* ---------------------------------------------------------------- ranking
Quantity(it) == coerce_numeric(it.quantity)
\* df_items['revenue'] = df_items['quantity'] * df_items['unit_price']
Revenue(it) == coerce_numeric(it.quantity) * coerce_numeric(it.unit_price)

Quantities(rows) == [ it \in rows |-> Quantity(it) ]
Revenues(rows) == [ it \in rows |-> Revenue(it) ]

\* sort_values('quantity', ascending=False): a comes before b.  Rows of
\* equal quantity keep the order groupby left them in (key_rank).
SortedBefore(a, b) ==
    \/ a.quantity > b.quantity
    \/ a.quantity = b.quantity /\ a.key_rank < b.key_rank

RECURSIVE SortRows(_)
SortRows(S) ==
    IF S = {} THEN << >>
    ELSE LET first == CHOOSE a \in S : \A b \in S \ {a} : SortedBefore(a, b)
         IN  << first >> \o SortRows(S \ {first})

Min(a, b) == IF a <= b THEN a ELSE b
Max(a, b) == IF a >= b THEN a ELSE b

\* DataFrame.head(n): the first n rows, or all but the last -n when n < 0
Head_(s, n) ==
    IF n >= 0 THEN SubSeq(s, 1, Min(n, Len(s)))
    ELSE SubSeq(s, 1, Max(Len(s) + n, 0))

\* groupby(['product_id', 'product_name']): rows with a null key are left
\* out, the groups come sorted by key
ProductKeys(rows) ==
    { << it.product_id, it.product_name >> :
        it \in { x \in rows : ~x.product_name.null } }

ProductKeyLess(a, b) ==
    \/ a[1] < b[1]
    \/ a[1] = b[1] /\ NameRank(a[2]) < NameRank(b[2])

ProductStats(rows) ==
    { LET g == { it \in rows :
                   it.product_id = k[1] /\ it.product_name = k[2] }
      IN  [ product_id |-> k[1],
            product_name |-> k[2],
            quantity |-> SumOver(g, Quantities(g)),
            revenue |-> SumOver(g, Revenues(g)),
            order_count |-> Cardinality(g),
            key_rank |->
                Cardinality({ j \in ProductKeys(rows) : ProductKeyLess(j, k) }) ]
      : k \in ProductKeys(rows) }

\* product_stats after sort_values(...).head(limit)
RankedProducts(rows, limit) == Head_(SortRows(ProductStats(rows)), limit)

\* The review statistics of one product: the lookup may fail (ok = FALSE),
\* and a rating that is no number makes sum() raise, which is caught too.
ReviewStats(found, ok) ==
    IF ~ok \/ \E r \in found : r.rating.t # "num"
    THEN [ review_count |-> 0, average_rating |-> 0 ]
    ELSE [ review_count |-> Cardinality(found),
           average_rating |->
               IF found = {} THEN 0
               ELSE RoundDiv(
                      SumOver(found, [ r \in found |-> r.rating.v ]) * 10,
                      Cardinality(found)) ]

BestSellingProduct(row, stats) ==
    [ product_id |-> row.product_id,
      product_name |-> row.product_name,
      total_quantity |-> row.quantity,
      total_revenue |-> row.revenue,
      order_count |-> row.order_count,
      review_count |-> stats.review_count,
      average_rating |-> stats.average_rating ]

\* --------------------------------------------------------- category sales
RECURSIVE Split(_)
\* str.split(): the words of the name, whitespace dropped
Split(pieces) ==
    IF pieces = << >> THEN << >>
    ELSE IF Head(pieces) = " " THEN Split(Tail(pieces))
    ELSE << Head(pieces) >> \o Split(Tail(pieces))

\* product_name.str.split().str[0], then fillna('Uncategorized')
Category(it) ==
    IF it.product_name.null \/ Split(it.product_name.pieces) = << >>
    THEN "Uncategorized"
    ELSE Split(it.product_name.pieces)[1]

Categories(rows) == { Category(it) : it \in rows }

\* A faulty variant: product_count counts the rows of the category.
CategoryStatsCountRows(rows) ==
    { LET g == { it \in rows : Category(it) = c }
      IN  [ category |-> c,
            quantity |-> SumOver(g, Quantities(g)),
            revenue |-> SumOver(g, Revenues(g)),
            product_count |-> Cardinality(g),
            key_rank |-> CategoryRank(c) ]
      : c \in Categories(rows) }

\* groupby('category').agg(quantity sum, revenue sum, product_id nunique)
CategoryStats(rows) ==
    { LET g == { it \in rows : Category(it) = c }
      IN  [ category |-> c,
            quantity |-> SumOver(g, Quantities(g)),
            revenue |-> SumOver(g, Revenues(g)),
            product_count |-> Cardinality({ it.product_id : it \in g }),
            key_rank |-> CategoryRank(c) ]
      : c \in Categories(rows) }

CategorySales(row) ==
    [ category |-> row.category,
      total_quantity |-> row.quantity,
      total_revenue |-> row.revenue,
      product_count |-> row.product_count ]

\* category_stats after sort_values(...).head(limit), as CategorySales
RankedCategories(rows, limit) ==
    LET top == Head_(SortRows(CategoryStats(rows)), limit)
    IN  [ i \in 1..Len(top) |-> CategorySales(top[i]) ]

\* --------------------------------------------------------------- requests
Periods == { "week", "month", "year", "day" }
NoYear == 0
YearParams == { NoYear, 2024, 2025 }
Limits == { -1, 0, 1, 3 }
CategoryParams == { NoCategory, "Lighting" }

Request(op, period, year, limit, category) ==
    [ op |-> op, period |-> period, year |-> year, limit |-> limit,
      category |-> category ]
NoRequest == Request("none", "", NoYear, 0, NoCategory)

NoLocals ==
    [ at |-> 0, start_date |-> 0, year |-> NoYear, total_customers |-> 0,
      period_customers |-> 0, ids |-> {}, ranked |-> << >>,
      best_selling |-> << >> ]

\* A response: the HTTP status, the error detail, the result record (or
\* list) of the service, and the envelope's timestamp.
NoBody == << >>
Response(status, detail, body, timestamp) ==
    [ status |-> status, detail |-> detail, body |-> body,
      timestamp |-> timestamp ]
NoResponse == Response(0, "", NoBody, 0)

NoPrev == [ req |-> NoRequest, at |-> 0, fetched |-> << >>, body |-> NoBody ]

\* One fetch of the request: the query and whether the store answered.
Fetch(q, ok) == [ q |-> q, ok |-> ok ]

\* The fetch each step of a pipeline issues; all but the reviews lookup
\* are fetches of a primary source.
PrimaryQuery ==
    [ dash_total   |-> "profiles.count",
      dash_period  |-> "profiles.count_since",
      dash_orders  |-> "orders.all",
      sales_orders |-> "orders.complete_of_year",
      earn_orders  |-> "orders.complete_of_year",
      best_orders  |-> "orders.complete_ids",
      best_items   |-> "order_items.of_orders",
      cat_orders   |-> "orders.complete_ids",
      cat_items    |-> "order_items.of_orders" ]
PrimarySteps == DOMAIN PrimaryQuery

\* A faulty variant: a failure is answered with an empty success.
EmptyOnError == Response(200, "", NoBody, 0)
\* except Exception as e: raise HTTPException(status_code=500, ...)
ErrorResponse == Response(500, "failed", NoBody, 0)

\* return XResponse(success=True, ...)
Respond(body, timestamp) ==
    /\ pc' = "responded"
    /\ resp' = Response(200, "", body, timestamp)

\* A request enters an endpoint.
Enter(r) ==
    /\ pc = "idle"
    /\ req' = r
    /\ UNCHANGED << store, now, fetched, divisors, prev >>

\* The response is sent and the request is over: nothing of it is kept.
\* `record` keeps a successful response, with its request, for comparison
\* with the next.
finish(record) ==
    /\ pc = "responded"
    /\ pc' = "idle"
    /\ req' = NoRequest
    /\ loc' = NoLocals
    /\ fetched' = << >>
    /\ divisors' = {}
    /\ resp' = NoResponse
    /\ prev' = IF record /\ resp.status = 200
               THEN [ req |-> req, at |-> loc.at, fetched |-> fetched,
                      body |-> resp.body ]
               ELSE prev
    /\ UNCHANGED << store, now >>

\* ---- GET /api/dashboard/stats
\* The period check raises HTTPException(400) inside the try block, whose
\* "except Exception" turns it into the 500 response.
get_dashboard_stats(period) ==
    /\ Enter(Request("stats", period, NoYear, 0, NoCategory))
    /\ IF period \in { "week", "month", "year" }
       THEN /\ pc' = "dash_total"
            /\ loc' = [ NoLocals EXCEPT !.at = now,
                                        !.start_date = StartDate(period, now) ]
            /\ resp' = NoResponse
       ELSE /\ pc' = "responded"
            /\ loc' = [ NoLocals EXCEPT !.at = now ]
            /\ resp' = Response(500, "wrapped 400", NoBody, 0)

dashboard_total_customers ==
    /\ pc = "dash_total"
    /\ pc' = "dash_period"
    /\ fetched' = Append(fetched, Fetch(PrimaryQuery[pc], TRUE))
    /\ loc' = [ loc EXCEPT !.total_customers = FetchProfileCount ]
    /\ UNCHANGED << store, now, req, divisors, resp, prev >>

dashboard_period_customers ==
    /\ pc = "dash_period"
    /\ pc' = "dash_orders"
    /\ fetched' = Append(fetched, Fetch(PrimaryQuery[pc], TRUE))
    /\ loc' = [ loc EXCEPT
                  !.period_customers = FetchProfileCountSince(loc.start_date) ]
    /\ UNCHANGED << store, now, req, divisors, resp, prev >>

\* A faulty variant: the clock is read again for the earnings filter.
PeriodCutoffReread == StartDate(req.period, now)
\* start_date, as the earnings filter reads it
PeriodCutoff == loc.start_date

dashboard_orders ==
    /\ pc = "dash_orders"
    /\ fetched' = Append(fetched, Fetch(PrimaryQuery[pc], TRUE))
    /\ LET rows == FetchOrders
           stats == DashboardStats(loc.total_customers, loc.period_customers,
                                   rows, PeriodCutoff)
       IN  /\ Respond(stats, now)
           /\ divisors' =
                IF rows # {}
                THEN EarningsDivisors(stats.earnings.total,
                                      stats.earnings.period)
                ELSE {}
    /\ UNCHANGED << store, now, req, loc, prev >>

\* ---- GET /api/dashboard/sales-report
\* if year is None: year = datetime.now().year
ResolveYear(year, t) == IF year = NoYear THEN YearOf(t) ELSE year

get_sales_report(year) ==
    /\ Enter(Request("sales-report", "", year, 0, NoCategory))
    /\ pc' = "sales_orders"
    /\ loc' = [ NoLocals EXCEPT !.at = now, !.year = ResolveYear(year, now) ]
    /\ resp' = NoResponse

sales_report_orders ==
    /\ pc = "sales_orders"
    /\ fetched' = Append(fetched, Fetch(PrimaryQuery[pc], TRUE))
    /\ LET rows == FetchCompleteOrdersOfYear(loc.year)
       IN  /\ Respond(SalesReport(rows, loc.year), 0)
           /\ divisors' = SalesDivisors(rows)
    /\ UNCHANGED << store, now, req, loc, prev >>

\* ---- GET /api/dashboard/monthly-earnings
get_monthly_earnings(year) ==
    /\ Enter(Request("monthly-earnings", "", year, 0, NoCategory))
    /\ pc' = "earn_orders"
    /\ loc' = [ NoLocals EXCEPT !.at = now, !.year = ResolveYear(year, now) ]
    /\ resp' = NoResponse

monthly_earnings_orders ==
    /\ pc = "earn_orders"
    /\ fetched' = Append(fetched, Fetch(PrimaryQuery[pc], TRUE))
    /\ Respond(MonthlyEarnings(FetchCompleteOrdersOfYear(loc.year)), 0)
    /\ UNCHANGED << store, now, req, loc, divisors, prev >>

\* ---- GET /api/dashboard/best-selling
\* A faulty variant: the pipeline never returns early.
NeverEmpty(S) == FALSE
\* "if not completed_order_ids:" and "if not order_items:"
IsEmpty(S) == S = {}

\* A faulty variant: a failed lookup is not caught.
ReviewErrorEscapes(ok) == ~ok
\* "except Exception as e:" around the reviews lookup: no failure of the
\* lookup leaves the loop
ReviewErrorAborts(ok) == FALSE

get_best_selling_products(limit, category) ==
    /\ Enter(Request("best-selling", "", NoYear, limit, category))
    /\ pc' = "best_orders"
    /\ loc' = [ NoLocals EXCEPT !.at = now ]
    /\ resp' = NoResponse

best_selling_orders ==
    /\ pc = "best_orders"
    /\ fetched' = Append(fetched, Fetch(PrimaryQuery[pc], TRUE))
    /\ LET ids == FetchCompleteOrderIds
       IN  IF IsEmpty(ids)
           THEN /\ Respond(<< >>, 0)
                /\ loc' = loc
           ELSE /\ pc' = "best_items"
                /\ loc' = [ loc EXCEPT !.ids = ids ]
                /\ resp' = resp
    /\ UNCHANGED << store, now, req, divisors, prev >>

best_selling_items ==
    /\ pc = "best_items"
    /\ fetched' = Append(fetched, Fetch(PrimaryQuery[pc], TRUE))
    /\ LET rows == FetchOrderItems(loc.ids, req.category)
           ranked == RankedProducts(rows, req.limit)
       IN  IF IsEmpty(rows)
           THEN /\ Respond(<< >>, 0)
                /\ loc' = loc
           ELSE IF ranked = << >>
           THEN \* the loop over product_stats has no turn
                /\ Respond(<< >>, 0)
                /\ loc' = loc
           ELSE /\ pc' = "best_reviews"
                /\ loc' = [ loc EXCEPT !.ranked = ranked ]
                /\ resp' = resp
    /\ UNCHANGED << store, now, req, divisors, prev >>

\* One turn of "for _, row in product_stats.iterrows()".
best_selling_reviews(ok) ==
    /\ pc = "best_reviews"
    /\ fetched' = Append(fetched, Fetch("reviews.of_product", ok))
    /\ LET row == loc.ranked[Len(loc.best_selling) + 1]
           stats == ReviewStats(FetchReviews(row.product_id), ok)
           best_selling ==
               Append(loc.best_selling, BestSellingProduct(row, stats))
       IN  IF ReviewErrorAborts(ok)
           THEN /\ pc' = "responded"
                /\ resp' = ErrorResponse
                /\ loc' = loc
           ELSE IF Len(best_selling) = Len(loc.ranked)
           THEN /\ Respond(best_selling, 0)
                /\ loc' = [ loc EXCEPT !.best_selling = best_selling ]
           ELSE /\ pc' = pc
                /\ loc' = [ loc EXCEPT !.best_selling = best_selling ]
                /\ resp' = resp
    /\ UNCHANGED << store, now, req, divisors, prev >>

\* ---- GET /api/dashboard/category-sales
get_category_sales(limit) ==
    /\ Enter(Request("category-sales", "", NoYear, limit, NoCategory))
    /\ pc' = "cat_orders"
    /\ loc' = [ NoLocals EXCEPT !.at = now ]
    /\ resp' = NoResponse

category_sales_orders ==
    /\ pc = "cat_orders"
    /\ fetched' = Append(fetched, Fetch(PrimaryQuery[pc], TRUE))
    /\ LET ids == FetchCompleteOrderIds
       IN  IF IsEmpty(ids)
           THEN /\ Respond(<< >>, 0)
                /\ loc' = loc
           ELSE /\ pc' = "cat_items"
                /\ loc' = [ loc EXCEPT !.ids = ids ]
                /\ resp' = resp
    /\ UNCHANGED << store, now, req, divisors, prev >>

category_sales_items ==
    /\ pc = "cat_items"
    /\ fetched' = Append(fetched, Fetch(PrimaryQuery[pc], TRUE))
    /\ LET rows == FetchOrderItems(loc.ids, NoCategory)
       IN  IF IsEmpty(rows)
           THEN Respond(<< >>, 0)
           ELSE Respond(RankedCategories(rows, req.limit), 0)
    /\ UNCHANGED << store, now, req, loc, divisors, prev >>

\* ---- the environment
\* The store does not answer a fetch of a primary source: execute() raises,
\* nothing catches it before the endpoint's "except Exception".
fetch_fails ==
    /\ pc \in PrimarySteps
    /\ fetched' = Append(fetched, Fetch(PrimaryQuery[pc], FALSE))
    /\ pc' = "responded"
    /\ resp' = ErrorResponse
    /\ UNCHANGED << store, now, req, loc, divisors, prev >>

\* Another client of the record store signs a customer up: a row is added
\* to the profiles table, created now.  The service holds no transaction
\* or snapshot over its fetches, so this may happen between any two.
insert_profile ==
    /\ Cardinality(profiles) < MaxProfiles
    /\ profiles' = profiles \cup
           { [ id |-> Cardinality(ProfilePool) + Cardinality(profiles) + 1,
               created_at |-> now ] }
    /\ UNCHANGED << orders, order_items, reviews, now, pc, req, loc, fetched,
                    divisors, resp, prev >>

\* Time passes.
Tick ==
    /\ \E t \in Clock : t > now /\ now' = t
    /\ UNCHANGED << store, pc, req, loc, fetched, divisors, resp, prev >>

\* ---------------------------------------------------------- specification
SmallSubsets(S, n) == { T \in SUBSET S : Cardinality(T) <= n }

ById(pool, ids) == { r \in pool : r.id \in ids }

\* Either the orders vary over a fixed set of items, or the items vary
\* over a fixed set of orders.
Stores ==
    \/ /\ orders \in SmallSubsets(OrderPool, MaxOrders)
       /\ order_items = ById(ItemPool, { 1, 3 })
       /\ profiles = ProfilePool
    \/ /\ orders \in { ById(OrderPool, { 3, 4 }), ById(OrderPool, { 2, 3 }) }
       /\ order_items \in SmallSubsets(ItemPool, MaxItems)
       /\ profiles = {}

Idle ==
    /\ reviews = ReviewPool
    /\ now = Day(2025, 1, 5)
    /\ pc = "idle"
    /\ req = NoRequest
    /\ loc = NoLocals
    /\ fetched = << >>
    /\ divisors = {}
    /\ resp = NoResponse
    /\ prev = NoPrev

Init == Stores /\ Idle

Calls ==
    \/ \E period \in Periods : get_dashboard_stats(period)
    \/ \E year \in YearParams : get_sales_report(year)
    \/ \E year \in YearParams : get_monthly_earnings(year)
    \/ \E limit \in Limits, category \in CategoryParams :
           get_best_selling_products(limit, category)
    \/ \E limit \in Limits : get_category_sales(limit)

Steps ==
    \/ dashboard_total_customers
    \/ dashboard_period_customers
    \/ dashboard_orders
    \/ sales_report_orders
    \/ monthly_earnings_orders
    \/ best_selling_orders
    \/ best_selling_items
    \/ \E ok \in BOOLEAN : best_selling_reviews(ok)
    \/ category_sales_orders
    \/ category_sales_items
    \/ fetch_fails
    \/ Tick

Next == Calls \/ Steps \/ finish(FALSE)

Spec == Init /\ [][Next]_vars

\* The same system, keeping each successful response for comparison with
\* the next one.  The store is one of two, so that the pairs of requests
\* stay few.
StoresIdem ==
    /\ orders \in { ById(OrderPool, { 3, 12 }), ById(OrderPool, { 4, 8 }) }
    /\ order_items = ById(ItemPool, { 1, 3 })
    /\ profiles = ProfilePool

InitIdem == StoresIdem /\ Idle

NextIdem == Calls \/ Steps \/ finish(TRUE)

SpecIdem == InitIdem /\ [][NextIdem]_vars

\* The dashboard statistics while other clients write to the profiles
\* table.
StoresConc ==
    /\ orders \in SmallSubsets(ById(OrderPool, { 3, 12 }), MaxOrders)
    /\ order_items = {}
    /\ profiles \in SUBSET ProfilePool

InitConc == StoresConc /\ Idle

NextConc ==
    \/ \E period \in Periods : get_dashboard_stats(period)
    \/ dashboard_total_customers
    \/ dashboard_period_customers
    \/ dashboard_orders
    \/ fetch_fails
    \/ insert_profile
    \/ Tick
    \/ finish(FALSE)

SpecConc == InitConc /\ [][NextConc]_vars

\* The two yearly reports, each successful response kept for comparison
\* with the next one, over any orders table of at most MaxOrders rows.
StoresPair ==
    /\ orders \in SmallSubsets(OrderPool, MaxOrders)
    /\ order_items = {}
    /\ profiles = {}

InitPair == StoresPair /\ Idle

NextPair ==
    \/ \E year \in YearParams : get_sales_report(year)
    \/ \E year \in YearParams : get_monthly_earnings(year)
    \/ sales_report_orders
    \/ monthly_earnings_orders
    \/ fetch_fails
    \/ Tick
    \/ finish(TRUE)

SpecPair == InitPair /\ [][NextPair]_vars

\* ------------------------------------------------------------------ claims
\* The request of endpoint op has ended in its 200 response.
Responded(op) == pc = "responded" /\ req.op = op /\ resp.status = 200

\* The fetches of a primary source among the fetches of the request.
IsPrimary(f) == f.q # "reviews.of_product"
FailedPrimary == { i \in 1..Len(fetched) : IsPrimary(fetched[i]) /\ ~fetched[i].ok }

\* What a raw field is worth in a sum: its number, or 0 when it is missing
\* or no number.
Worth(x) == IF x.t \in { "num", "numstr" } THEN x.v ELSE 0

\* The complete orders of a month of a year.
CompleteOf(year, i) ==
    { o \in orders :
        /\ o.status = "complete"
        /\ YearOf(o.created_at) = year
        /\ MonthOf(o.created_at) = i }

\* C1: in the dashboard stats, pending + approved + in_transit + complete +
\* cancelled = total, whatever status the fetched orders carry.
C1_StatusCountsSumToTotal ==
    Responded("stats") =>
        LET o == resp.body.orders
        IN  o.pending + o.approved + o.in_transit + o.complete + o.cancelled
              = o.total

\* C2: the sales report has exactly 12 monthly entries, January to December,
\* and the monthly earnings exactly 12 values; a month with no matching
\* order is there with sales 0 and orders 0 (earnings 0).
C2_TwelveMonthlyBuckets ==
    /\ Responded("sales-report") =>
         LET m == resp.body.monthly
         IN  /\ DOMAIN m = 1..12
             /\ \A i \in DOMAIN m :
                  /\ m[i].month = MonthNames[i]
                  /\ CompleteOf(loc.year, i) = {} =>
                       m[i].sales = 0 /\ m[i].orders = 0
    /\ Responded("monthly-earnings") =>
         /\ DOMAIN resp.body = 1..12
         /\ \A i \in DOMAIN resp.body :
              CompleteOf(loc.year, i) = {} => resp.body[i] = 0

\* C2's case: a sales report of a year with orders in some months only.
C2_Witness ==
    /\ Responded("sales-report")
    /\ \E i \in 1..12 : CompleteOf(loc.year, i) # {}
    /\ \E i \in 1..12 : CompleteOf(loc.year, i) = {}

\* C3: a growth percentage is 0 whenever its denominator is <= 0, in the
\* dashboard stats (all-time earnings - period earnings) and in the sales
\* report (the previous month's sales), and no division by a value <= 0
\* is performed.
C3_GrowthZeroOnNonPositiveBase ==
    /\ Responded("stats") =>
         LET e == resp.body.earnings
         IN  e.total - e.period <= 0 => e.growth = 0
    /\ Responded("sales-report") =>
         LET m == resp.body.monthly
         IN  \A i \in 2..12 : m[i - 1].sales <= 0 => m[i].growth = GrowthZero
    /\ \A d \in divisors : d > 0

\* C3's case: dashboard stats whose earlier earnings are negative while the
\* period's are not zero.
C3_Witness ==
    /\ Responded("stats")
    /\ resp.body.earnings.total - resp.body.earnings.period < 0
    /\ resp.body.earnings.period > 0

\* Is the list in non-increasing order of total_quantity?
NonIncreasing(list) ==
    \A i \in 1..Len(list) - 1 :
        list[i].total_quantity >= list[i + 1].total_quantity

\* C4: a ranking that is returned is in non-increasing order of
\* total_quantity and no longer than limit, for every limit (stated here for
\* the rankings that are not empty).
C4_RankingWithinLimit ==
    (Responded("best-selling") \/ Responded("category-sales")) =>
        /\ NonIncreasing(resp.body)
        /\ resp.body # << >> => Len(resp.body) <= req.limit

\* The reviews lookups among the fetches of the request, in order.
ReviewFetches == SelectSeq(fetched, LAMBDA f : ~IsPrimary(f))

\* C5: a failure of the reviews lookup never fails the best-selling request:
\* the product is returned with review_count 0 and average_rating 0, every
\* ranked product is looked up, and the ranking is the one the order items
\* give.
C5_ReviewFailureTolerated ==
    /\ (pc = "responded" /\ req.op = "best-selling" /\ resp.status # 200) =>
         FailedPrimary # {}
    /\ Responded("best-selling") =>
         LET ranked ==
                 RankedProducts(
                     FetchOrderItems(FetchCompleteOrderIds, req.category),
                     req.limit)
             body == resp.body
         IN  /\ Len(body) = Len(ranked)
             /\ Len(ReviewFetches) = Len(body)
             /\ \A i \in 1..Len(body) :
                  /\ body[i].product_id = ranked[i].product_id
                  /\ body[i].product_name = ranked[i].product_name
                  /\ body[i].total_quantity = ranked[i].quantity
                  /\ body[i].total_revenue = ranked[i].revenue
                  /\ body[i].order_count = ranked[i].order_count
                  /\ ~ReviewFetches[i].ok =>
                       /\ body[i].review_count = 0
                       /\ body[i].average_rating = 0

\* C5's case: two products are returned, the lookup of the first failed and
\* the lookup of the second found a review.
C5_Witness ==
    /\ Responded("best-selling")
    /\ Len(resp.body) = 2
    /\ ~ReviewFetches[1].ok
    /\ ReviewFetches[2].ok
    /\ resp.body[2].review_count > 0

\* C6: when a fetch of a primary source fails, the request ends in an error
\* with no result; the failed fetch is the last fetch of the request and is
\* issued once.
C6_PrimaryFailureIsFatal ==
    \A i \in FailedPrimary :
        /\ pc = "responded"
        /\ resp.status = 500
        /\ resp.body = NoBody
        /\ i = Len(fetched)
        /\ \A j \in 1..Len(fetched) : fetched[j].q = fetched[i].q => j = i

\* C6's case: the third fetch of the dashboard stats failed.
C6_Witness ==
    /\ pc = "responded"
    /\ req.op = "stats"
    /\ Len(fetched) = 3
    /\ FailedPrimary = { 3 }

\* C7: with no completed order, best-selling and category-sales return the
\* empty list after the orders fetch alone; with no order item they return
\* it after the order_items fetch, with no reviews lookup; both are normal
\* results.
C7_EmptyShortCircuit ==
    (req.op \in { "best-selling", "category-sales" } /\ FailedPrimary = {}) =>
        /\ FetchCompleteOrderIds = {} =>
             /\ Len(fetched) <= 1
             /\ Len(fetched) = 1 => Responded(req.op) /\ resp.body = << >>
        /\ FetchOrderItems(FetchCompleteOrderIds, req.category) = {} =>
             /\ Len(fetched) <= 2
             /\ Len(fetched) = 2 => Responded(req.op) /\ resp.body = << >>

\* C7's case: best-selling found completed orders and none of their items.
C7_Witness ==
    /\ Responded("best-selling")
    /\ FetchCompleteOrderIds # {}
    /\ FetchOrderItems(FetchCompleteOrderIds, req.category) = {}
    /\ order_items # {}

\* Is the result of the request the same at every time of the call?
TimeIndependent(r) ==
    \/ r.op \in { "best-selling", "category-sales" }
    \/ r.op \in { "sales-report", "monthly-earnings" } /\ r.year # NoYear

\* The request repeats the one before it: the same endpoint and parameters,
\* and the store answered the same fetches.
Repeats ==
    /\ pc = "responded"
    /\ resp.status = 200
    /\ prev.req = req
    /\ prev.fetched = fetched

\* C8 as stated: two calls with the same parameters against the unchanged
\* store return the same result, whenever each is made.
C8_SameResultAtAnyTime == Repeats => resp.body = prev.body

\* C8 amended: ... return the same result when both are made at the same
\* reading of the clock; the rankings and the reports of a given year return
\* it whenever they are made.
C8_SameResultAtSameTime ==
    (Repeats /\ (prev.at = loc.at \/ TimeIndependent(req))) =>
        resp.body = prev.body

\* C8's case: dashboard stats asked twice at one reading of the clock, which
\* moved on before the second request fetched its orders.
C8_Witness ==
    /\ Repeats
    /\ req.op = "stats"
    /\ prev.at = loc.at
    /\ now # loc.at
    /\ resp.body.orders.total > 0

\* The items of one product among the fetched order items.
ItemsOf(e) ==
    { it \in FetchOrderItems(FetchCompleteOrderIds, req.category) :
        it.product_id = e.product_id /\ it.product_name = e.product_name }

\* C9: a total_amount, quantity or unit_price that is missing or no number
\* counts 0 in every sum and raises nothing; the all-time earnings are the
\* sum of the amounts of all fetched orders of every status, 100.50 for
\* [complete '100.50', pending 'abc'].
C9_CoercionTotal ==
    /\ Responded("stats") =>
         /\ resp.body.earnings.total =
              SumOver(orders, [ o \in orders |-> Worth(o.total_amount) ])
         /\ orders = ById(OrderPool, { 1, 2 }) =>
              /\ resp.body.earnings.total = 10050
              /\ resp.body.orders =
                   [ pending |-> 1, approved |-> 0, in_transit |-> 0,
                     complete |-> 1, cancelled |-> 0, total |-> 2 ]
    /\ Responded("best-selling") =>
         \A i \in 1..Len(resp.body) :
             LET e == resp.body[i]
                 g == ItemsOf(e)
             IN  /\ e.total_quantity =
                      SumOver(g, [ it \in g |-> Worth(it.quantity) ])
                 /\ e.total_revenue =
                      SumOver(g, [ it \in g |->
                                     Worth(it.quantity) * Worth(it.unit_price) ])
    /\ (pc = "responded" /\ resp.status # 200) =>
         FailedPrimary # {} \/ req.period = "day"

\* C9's case: the dashboard stats of the orders [complete '100.50',
\* pending 'abc'].
C9_Witness == Responded("stats") /\ orders = ById(OrderPool, { 1, 2 })

\* Is g, in tenths, (cur - base) / base * 100 to one decimal?
OneDecimalOf(g, cur, base) ==
    LET err == g * base - (cur - base) * 1000
    IN  2 * err <= base /\ 2 * err >= 0 - base

\* C10: in the sales report the growth of month m is against month m-1 of
\* the same report: "0" for January and when the sales of m-1 are <= 0, and
\* otherwise (sales_m - sales_m-1) / sales_m-1 * 100 to one decimal; with
\* orders in March (1000) and April (1500) only, April's growth is 50.0,
\* March's is 0 and every other month has sales 0 and orders 0.
C10_MonthOverMonthGrowth ==
    Responded("sales-report") =>
        LET m == resp.body.monthly
        IN  /\ m[1].growth = GrowthZero
            /\ \A i \in 2..12 :
                 IF m[i - 1].sales <= 0
                 THEN m[i].growth = GrowthZero
                 ELSE /\ ~m[i].growth.literal0
                      /\ OneDecimalOf(m[i].growth.tenths, m[i].sales,
                                      m[i - 1].sales)
            /\ FetchCompleteOrdersOfYear(loc.year) = ById(OrderPool, { 3, 4 }) =>
                 /\ m[3].sales = 100000 /\ m[4].sales = 150000
                 /\ m[4].growth = GrowthStr(500)
                 /\ m[3].growth = GrowthZero
                 /\ \A i \in (1..12) \ { 3, 4 } :
                      m[i].sales = 0 /\ m[i].orders = 0

\* C10's case: the sales report of 2024 with orders in March and April only.
C10_Witness ==
    /\ Responded("sales-report")
    /\ loc.year = 2024
    /\ orders = ById(OrderPool, { 3, 4 })

\* The first whitespace-delimited token of a product name, "" when the name
\* is missing, empty or whitespace only.
FirstToken(n) ==
    IF n.null \/ \A k \in DOMAIN n.pieces : n.pieces[k] = " "
    THEN ""
    ELSE LET first == CHOOSE k \in DOMAIN n.pieces :
                        /\ n.pieces[k] # " "
                        /\ \A j \in 1..(k - 1) : n.pieces[j] = " "
         IN  n.pieces[first]

\* The category the specification gives an order item.
CategoryOf(it) ==
    IF FirstToken(it.product_name) = "" THEN "Uncategorized"
    ELSE FirstToken(it.product_name)

\* The order items a category-sales request fetches: those of the complete
\* orders.
CategoryRows ==
    { it \in order_items :
        \E o \in orders : o.status = "complete" /\ o.id = it.order_id }

\* C11: in the category sales, every fetched order item belongs to exactly
\* one category, the first whitespace-delimited token of its product_name
\* or "Uncategorized" when the name is missing, empty or whitespace only;
\* a returned category's total_quantity and total_revenue are the sums over
\* its items and product_count the number of their distinct product_id;
\* "Chandelier Gold", "Chandelier Silver", "Lamp Desk" give "Chandelier"
\* with 2 products and "Lamp" with 1.
C11_CategoryOfFirstToken ==
    Responded("category-sales") =>
        LET b == resp.body
            group(c) == { it \in CategoryRows : CategoryOf(it) = c }
            all == { CategoryOf(it) : it \in CategoryRows }
        IN  /\ \A i \in DOMAIN b :
                  LET g == group(b[i].category)
                  IN  /\ g # {}
                      /\ b[i].total_quantity =
                           SumOver(g, [ it \in g |-> Worth(it.quantity) ])
                      /\ b[i].total_revenue =
                           SumOver(g, [ it \in g |->
                               Worth(it.quantity) * Worth(it.unit_price) ])
                      /\ b[i].product_count =
                           Cardinality({ it.product_id : it \in g })
            /\ \A i, j \in DOMAIN b : b[i].category = b[j].category => i = j
            /\ { b[i].category : i \in DOMAIN b } \subseteq all
            /\ Len(b) = Cardinality(all) =>
                  SumField(b, 1, "total_quantity") =
                    SumOver(CategoryRows,
                        [ it \in CategoryRows |-> Worth(it.quantity) ])
            /\ ( /\ { it.product_name : it \in CategoryRows } =
                      { ChandelierGold, ChandelierSilver, LampDesk }
                  /\ Cardinality(CategoryRows) = 3
                  /\ req.limit = 3 ) =>
                  { << b[i].category, b[i].product_count >> : i \in DOMAIN b }
                    = { << "Chandelier", 2 >>, << "Lamp", 1 >> }

\* C11's case: the categories of named, unnamed and blank-named items of
\* one product sold twice are returned.
C11_Witness ==
    /\ Responded("category-sales")
    /\ Len(resp.body) >= 2
    /\ \E it \in CategoryRows : FirstToken(it.product_name) = ""
    /\ \E i \in DOMAIN resp.body :
          /\ resp.body[i].category = "Chandelier"
          /\ resp.body[i].product_count <
               Cardinality({ it \in CategoryRows : CategoryOf(it) = "Chandelier" })

\* C12: GET /api/dashboard/stats answers a period other than "week",
\* "month", "year" with status 400 and the detail "Period must be 'week',
\* 'month', or 'year'", without a fetch by the analytics service; it
\* answers 500 only when a fetch of the analytics service has failed.
C12_InvalidPeriodIs400 ==
    (pc = "responded" /\ req.op = "stats") =>
        /\ req.period \notin { "week", "month", "year" } =>
              /\ resp.status = 400
              /\ resp.detail = "Period must be 'week', 'month', or 'year'"
              /\ fetched = << >>
        /\ resp.status = 500 => FailedPrimary # {}

\* C13: in every result of get_dashboard_stats, customers.period <=
\* customers.total and customers.percentage <= 100, also when profiles are
\* inserted between the fetch of the total count and the fetch of the count
\* since the cutoff.
C13_PeriodCustomersWithinTotal ==
    Responded("stats") =>
        LET c == resp.body.customers
        IN  c.period <= c.total /\ c.percentage <= 1000

\* The complete orders of a year.
CompleteOfYear(year) ==
    { o \in orders : o.status = "complete" /\ YearOf(o.created_at) = year }

\* The response ends a request of endpoint op that follows a successful
\* request of endpoint before for the same year.
Follows(op, before) ==
    /\ Responded(op)
    /\ prev.req.op = before
    /\ ResolveYear(prev.req.year, prev.at) = loc.year

\* C14: for every year and an unchanged orders table, get_monthly_earnings
\* and get_sales_report agree month by month, monthly_earnings[i] =
\* sales_report.monthly[i].sales for the twelve months, and the sales
\* report's totalOrders is the number of complete orders of that year, each
\* counted in exactly one month.
C14_EarningsAgreeWithSalesReport ==
    /\ Follows("monthly-earnings", "sales-report") =>
          \A i \in 1..12 : resp.body[i] = prev.body.monthly[i].sales
    /\ Follows("sales-report", "monthly-earnings") =>
          \A i \in 1..12 : prev.body[i] = resp.body.monthly[i].sales
    /\ Responded("sales-report") =>
          /\ resp.body.year = loc.year
          /\ resp.body.summary.totalOrders = Cardinality(CompleteOfYear(loc.year))
          /\ \A o \in CompleteOfYear(loc.year) :
                \E i \in 1..12 :
                  /\ o \in CompleteOf(loc.year, i)
                  /\ \A j \in (1..12) \ { i } : o \notin CompleteOf(loc.year, j)
          /\ \A i \in 1..12 :
                resp.body.monthly[i].orders = Cardinality(CompleteOf(loc.year, i))

\* C14's case: the monthly earnings follow the sales report of the same
\* year, which has complete orders in two different months, one of them
\* with an amount that is not a number.
C14_Witness ==
    /\ Follows("monthly-earnings", "sales-report")
    /\ \E i, j \in 1..12 :
          /\ i # j
          /\ resp.body[i] > 0
          /\ resp.body[j] = 0
          /\ prev.body.monthly[j].orders > 0
    /\ prev.body.summary.totalOrders >= 2

====
